---- MODULE Spec2Model ----
(***************************************************************************)
(* robots_txt_analyzer.py: the RobotsTxtAnalyser class and the program     *)
(* that drives it (construct, __enter__/load, one analyze, __exit__/save). *)
(*                                                                         *)
(* Text is modelled as a sequence: a URL as a sequence of lexical tokens   *)
(* ("https", ":", "/", "/", "example.com", ...), a robots.txt body as a    *)
(* sequence of characters, the persisted JSON file as a sequence of JSON   *)
(* tokens.  An Optional value is a sequence of length at most one.         *)
(***************************************************************************)
EXTENDS Integers, Sequences, FiniteSets

VARIABLES
    file,       \* the persisted file: [exists, text]
    store,      \* self._resources_stats: resource key -> entry
    pc,         \* position of the program: "start", "init", "body", "leaving"
    call,       \* the last operation performed, its inputs and its outcome
    loaded,     \* history: the store as __enter__ left it (inside the with-block)
    saved,      \* history: the store the last save wrote, None before any save
    tz,         \* UTC offset of the local time zone of the machine
    chunks,     \* the pieces of the content given to collect_stats (StatsSpec)
    stats       \* what collect_stats returned for it, None before the call (StatsSpec)

vars == <<file, store, pc, call, loaded, saved, tz, chunks, stats>>

----------------------------------------------------------------------------
(* Bounds *)

\* Last-Modified instants the remote can report: 1..MaxDate
MaxDate == 2
\* local UTC offsets considered: 0..MaxUtcOffset
MaxUtcOffset == 1
\* number of chunks a robots.txt content is assembled from (StatsSpec)
MaxChunks == 5

----------------------------------------------------------------------------
(* Optional values *)

None == <<>>
Some(x) == <<x>>

----------------------------------------------------------------------------
(* Stats, collect_stats *)

AllowMarker == <<"A", "l", "l", "o", "w", ":">>
DisallowMarker == <<"D", "i", "s", "a", "l", "l", "o", "w", ":">>

\* Stats(): the dataclass defaults
NewStats == [allow |-> 0, disallow |-> 0, last_modified |-> None]

\* str.count(sub): the number of non-overlapping occurrences of sub in s[i..],
\* scanning from the left
RECURSIVE StrCount(_, _, _)
StrCount(s, sub, i) ==
    IF i + Len(sub) - 1 > Len(s) THEN 0
    ELSE IF SubSeq(s, i, i + Len(sub) - 1) = sub
         THEN 1 + StrCount(s, sub, i + Len(sub))
         ELSE StrCount(s, sub, i + 1)

\* a match that ignores the case of the first letter
LooseEq(a, b) ==
    /\ Len(a) = Len(b)
    /\ \A j \in 1..Len(a) :
          \/ a[j] = b[j]
          \/ j = 1 /\ a[j] = "a" /\ b[j] = "A"

RECURSIVE StrCountLoose(_, _, _)
StrCountLoose(s, sub, i) ==
    IF i + Len(sub) - 1 > Len(s) THEN 0
    ELSE IF LooseEq(SubSeq(s, i, i + Len(sub) - 1), sub)
         THEN 1 + StrCountLoose(s, sub, i + Len(sub))
         ELSE StrCountLoose(s, sub, i + 1)

CollectStatsLoose(c) ==
    [NewStats EXCEPT !.allow = StrCountLoose(c, AllowMarker, 1),
                     !.disallow = StrCountLoose(c, DisallowMarker, 1)]

CollectStats(c) ==
    [NewStats EXCEPT !.allow = StrCount(c, AllowMarker, 1),
                     !.disallow = StrCount(c, DisallowMarker, 1)]

\* "Allow: /a\nDisallow: /b\nDisallow: /c"
AllowA == AllowMarker \o <<" ", "/", "a">>
DisallowB == DisallowMarker \o <<" ", "/", "b">>
DisallowC == DisallowMarker \o <<" ", "/", "c">>
Newline == <<"\n">>
ExampleContent == AllowA \o Newline \o DisallowB \o Newline \o DisallowC

\* "Disallow: /b"
DisallowOnly == DisallowB

\* the bodies the remote serves
Bodies == {ExampleContent, DisallowOnly}

----------------------------------------------------------------------------
(* URLs: prepare *)

Https == <<"https", ":", "/", "/">>

ExampleCom == "example.com"
GoogleCom == "google.com"

\* the resource strings given to analyze
Resources ==
    { <<ExampleCom>>, <<ExampleCom, "/">>,
      Https \o <<ExampleCom>>, Https \o <<ExampleCom, "/">>,
      <<GoogleCom>> }

\* URL(resource).scheme: the text before the first ":" when it is a scheme name
Scheme(u) ==
    IF Len(u) >= 2 /\ u[2] = ":" /\ u[1] \notin {":", "/"} THEN u[1] ELSE ""

\* the netloc of a URL with a scheme: what follows "//" up to the next "/"
RECURSIVE UpToSlash(_)
UpToSlash(u) ==
    IF u = <<>> \/ Head(u) = "/" THEN <<>>
    ELSE <<Head(u)>> \o UpToSlash(Tail(u))

Netloc(u) == UpToSlash(SubSeq(u, 5, Len(u)))

\* URL(u).with_path("/robots.txt")
WithPath(u) == SubSeq(u, 1, 4) \o Netloc(u) \o <<"/", "robots.txt">>

\* URL.build(scheme="https", host=host).  A yarl that validates the host
\* rejects one that holds "/"; one that does not puts it in the URL as it is.
UrlBuild(host, validates) ==
    IF validates /\ \E i \in 1..Len(host) : host[i] = "/"
    THEN [exc |-> "ValueError", url |-> <<>>]
    ELSE [exc |-> "", url |-> Https \o host]

\* prepare(resource) -> (resource, url_robots_txt)
Prepare(resource, validates) ==
    LET built == IF Scheme(resource) = ""
                 THEN UrlBuild(resource, validates)
                 ELSE [exc |-> "", url |-> resource]
    IN IF built.exc # ""
       THEN [exc |-> built.exc, resource |-> <<>>, url_robots_txt |-> <<>>]
       ELSE [exc |-> "", resource |-> built.url,
             url_robots_txt |-> WithPath(built.url)]

----------------------------------------------------------------------------
(* Time: a naive datetime is an integer (seconds, abstracted); a POSIX       *)
(* timestamp is an integer too.  A naive datetime is read as local time.     *)

\* what the remote can answer to HEAD: a status and the Last-Modified header
Dates == 1..MaxDate
LastModifiedHeader(d) == [date |-> d, zone |-> "GMT"]
Headers == {None} \cup {Some(LastModifiedHeader(d)) : d \in Dates}
Statuses == {200, 404}

\* strptime(date_string, "%a, %d %b %Y %H:%M:%S %Z"): a naive datetime, the
\* zone name is matched and dropped
ParseLastModifiedFromString(h) == h.date

\* datetime.timestamp() of a naive datetime
Timestamp(dt, offset) == dt - offset

\* datetime.fromtimestamp(ts)
FromTimestamp(ts, offset) == ts + offset

\* parse_last_modified_from_float(resource); fromtimestamp(None) is a TypeError
ParseLastModifiedFromFloat(st, resource, offset) ==
    IF st[resource].last_modified = None
    THEN [exc |-> "TypeError", value |-> 0]
    ELSE [exc |-> "", value |-> FromTimestamp(st[resource].last_modified[1], offset)]

----------------------------------------------------------------------------
(* inspect, analyze *)

\* inspect without the 404 test
InspectNoRaise(status, header) ==
    IF header = None
    THEN [exc |-> "", value |-> None]
    ELSE [exc |-> "", value |-> Some(ParseLastModifiedFromString(header[1]))]

\* inspect(url_robots_txt), given the response to requests.head
Inspect(status, header) ==
    IF status = 404
    THEN [exc |-> "RobotsTxtNotFound", value |-> None]
    ELSE IF header = None
         THEN [exc |-> "", value |-> None]
         ELSE [exc |-> "", value |-> Some(ParseLastModifiedFromString(header[1]))]

\* the test of line 119 with the tracked resource always taken as up to date
StoredIsNewerAlways(st, resource, last_modified, offset) ==
    [exc |-> "", value |-> resource \in DOMAIN st]

\* line 119: resource in self._resources_stats and
\*           self.parse_last_modified_from_float(resource) > last_modified
\* (datetime > None is a TypeError)
StoredIsNewer(st, resource, last_modified, offset) ==
    IF resource \notin DOMAIN st
    THEN [exc |-> "", value |-> FALSE]
    ELSE LET stored == ParseLastModifiedFromFloat(st, resource, offset)
         IN IF stored.exc # "" THEN [exc |-> stored.exc, value |-> FALSE]
            ELSE IF last_modified = None
                 THEN [exc |-> "TypeError", value |-> FALSE]
                 ELSE [exc |-> "", value |-> stored.value > last_modified[1]]

\* d[k] = v on a dict
Put(st, k, v) == [x \in (DOMAIN st) \cup {k} |-> IF x = k THEN v ELSE st[x]]

\* lines 121-123: the Stats of the fetched body, with the fresh timestamp
FreshStats(body, last_modified, offset) ==
    LET s == CollectStats(body)
    IN IF last_modified # None
       THEN [s EXCEPT !.last_modified = Some(Timestamp(last_modified[1], offset))]
       ELSE s

\* analyze(resource) on store st, given what the network answers: the outcome
\* is the store afterwards, the requests issued and the exception raised
AnalyzeOutcome(st, resource, validates, status, header, body, offset) ==
    LET p == Prepare(resource, validates)
        seen == Inspect(status, header)
        newer == StoredIsNewer(st, p.resource, seen.value, offset)
    IN IF p.exc # ""
       THEN [store |-> st, reqs |-> <<>>, exc |-> p.exc]
       ELSE IF seen.exc # ""
       THEN [store |-> st, reqs |-> <<"HEAD">>, exc |-> seen.exc]
       ELSE IF newer.exc # ""
       THEN [store |-> st, reqs |-> <<"HEAD">>, exc |-> newer.exc]
       ELSE IF newer.value
       THEN [store |-> st, reqs |-> <<"HEAD">>, exc |-> ""]
       ELSE [store |-> Put(st, p.resource, FreshStats(body, seen.value, offset)),
             reqs |-> <<"HEAD", "GET">>, exc |-> ""]

----------------------------------------------------------------------------
(* JSON: json.dumps and json.load on the store *)

Tok(t) == [t |-> t, s |-> <<>>, n |-> 0]
StrTok(s) == [t |-> "str", s |-> s, n |-> 0]
NumTok(n) == [t |-> "num", s |-> <<>>, n |-> n]

\* None is written as 0
EncodeOptionalAsZero(v) == IF v = None THEN NumTok(0) ELSE NumTok(v[1])

\* None is written null, a number as the number
EncodeOptional(v) == IF v = None THEN Tok("null") ELSE NumTok(v[1])

\* one entry: {"allow": a, "disallow": d, "last_modified": m}
EncodeEntry(e) ==
    << Tok("{"), StrTok(<<"allow">>), Tok(":"), NumTok(e.allow), Tok(","),
       StrTok(<<"disallow">>), Tok(":"), NumTok(e.disallow), Tok(","),
       StrTok(<<"last_modified">>), Tok(":"), EncodeOptional(e.last_modified),
       Tok("}") >>

EntryLen == 13

\* the keys of a dict, in the order dumps writes them
RECURSIVE KeyOrder(_)
KeyOrder(S) ==
    IF S = {} THEN <<>>
    ELSE LET k == CHOOSE x \in S : TRUE IN <<k>> \o KeyOrder(S \ {k})

RECURSIVE EncodeMembers(_, _)
EncodeMembers(st, keys) ==
    IF keys = <<>> THEN <<>>
    ELSE <<StrTok(Head(keys)), Tok(":")>> \o EncodeEntry(st[Head(keys)])
         \o (IF Len(keys) > 1 THEN <<Tok(",")>> ELSE <<>>)
         \o EncodeMembers(st, Tail(keys))

\* json.dumps(self._resources_stats)
JsonDumps(st) == <<Tok("{")>> \o EncodeMembers(st, KeyOrder(DOMAIN st)) \o <<Tok("}")>>

DecodeError == [ok |-> FALSE, value |-> <<>>]
Decoded(v) == [ok |-> TRUE, value |-> v]

DecodeOptional(tok) == IF tok.t = "null" THEN None ELSE Some(tok.n)

\* whether text[i .. i+12] is an entry object as EncodeEntry writes it
IsEntryAt(text, i) ==
    /\ i + EntryLen - 1 <= Len(text)
    /\ text[i].t = "{"
    /\ text[i + 1] = StrTok(<<"allow">>) /\ text[i + 2].t = ":"
    /\ text[i + 3].t = "num" /\ text[i + 4].t = ","
    /\ text[i + 5] = StrTok(<<"disallow">>) /\ text[i + 6].t = ":"
    /\ text[i + 7].t = "num" /\ text[i + 8].t = ","
    /\ text[i + 9] = StrTok(<<"last_modified">>) /\ text[i + 10].t = ":"
    /\ text[i + 11].t \in {"num", "null"}
    /\ text[i + 12].t = "}"

DecodeEntryAt(text, i) ==
    [allow |-> text[i + 3].n, disallow |-> text[i + 7].n,
     last_modified |-> DecodeOptional(text[i + 11])]

\* the members of the outer object from position i on: key ":" entry, then ","
\* and more members or the closing "}" as the last token; a repeated key keeps
\* the last value
RECURSIVE DecodeMembers(_, _, _)
DecodeMembers(text, i, acc) ==
    IF i + EntryLen + 2 > Len(text) THEN DecodeError
    ELSE IF ~(text[i].t = "str" /\ text[i + 1].t = ":" /\ IsEntryAt(text, i + 2))
    THEN DecodeError
    ELSE LET acc2 == Put(acc, text[i].s, DecodeEntryAt(text, i + 2))
             next == text[i + EntryLen + 2]
         IN IF next.t = "}"
            THEN (IF i + EntryLen + 2 = Len(text) THEN Decoded(acc2) ELSE DecodeError)
            ELSE IF next.t = ","
            THEN DecodeMembers(text, i + EntryLen + 3, acc2)
            ELSE DecodeError

\* json.load(f) on the text of the file; not ok stands for JSONDecodeError
JsonLoads(text) ==
    IF Len(text) < 2 \/ text[1].t # "{" THEN DecodeError
    ELSE IF text[2].t = "}"
    THEN (IF Len(text) = 2 THEN Decoded(<<>>) ELSE DecodeError)
    ELSE DecodeMembers(text, 2, <<>>)

----------------------------------------------------------------------------
(* load, save *)

NoFile == [exists |-> FALSE, text |-> <<>>]
FileOf(text) == [exists |-> TRUE, text |-> text]

\* load without the except clause: the decode error reaches the caller
LoadOutcomeNoExcept(f, st) ==
    IF ~f.exists THEN [exc |-> "FileNotFoundError", store |-> st]
    ELSE IF JsonLoads(f.text).ok
         THEN [exc |-> "", store |-> JsonLoads(f.text).value]
         ELSE [exc |-> "JSONDecodeError", store |-> st]

\* load(): open(self.filename, 'r') raises when there is no file; a text that
\* json.load rejects gives the empty store
LoadOutcome(f, st) ==
    IF ~f.exists THEN [exc |-> "FileNotFoundError", store |-> st]
    ELSE IF JsonLoads(f.text).ok
         THEN [exc |-> "", store |-> JsonLoads(f.text).value]
         ELSE [exc |-> "", store |-> <<>>]

\* save(): open(self.filename, 'w') and write json.dumps of the store
SaveOutcome(st) == FileOf(JsonDumps(st))

----------------------------------------------------------------------------
(* The program: lines 152-157 *)

NoCall == [op |-> "none", resource |-> <<>>, key |-> <<>>, status |-> 0,
           header |-> None, reqs |-> <<>>, body |-> <<>>, exc |-> ""]

\* a persisted file cut short, as a write that did not complete leaves it
TruncatedText ==
    SubSeq(JsonDumps(Put(<<>>, Https \o <<ExampleCom>>, NewStats)), 1, 9)

InitialFiles == {NoFile, FileOf(<<>>), FileOf(<<Tok("{")>>), FileOf(TruncatedText)}

StatsIdle == /\ chunks = <<>>
             /\ stats = None

Init ==
    /\ file \in InitialFiles
    /\ store = <<>>
    /\ pc = "start"
    /\ call = NoCall
    /\ loaded = <<>>
    /\ saved = None
    /\ tz \in 0..MaxUtcOffset
    /\ StatsIdle

\* RobotsTxtAnalyser(filename): a new process, a new object, an empty store
Construct ==
    /\ pc = "start"
    /\ pc' = "init"
    /\ store' = <<>>
    /\ call' = [NoCall EXCEPT !.op = "__init__"]
    /\ loaded' = <<>>
    /\ UNCHANGED <<file, saved, tz, chunks, stats>>

\* __enter__: load(); an exception leaves the with statement before its body,
\* __exit__ is not called and the program ends
Enter ==
    /\ pc = "init"
    /\ LET r == LoadOutcome(file, store)
       IN /\ store' = r.store
          /\ call' = [NoCall EXCEPT !.op = "__enter__", !.exc = r.exc]
          /\ pc' = IF r.exc = "" THEN "body" ELSE "start"
          /\ loaded' = r.store
    /\ UNCHANGED <<file, saved, tz, chunks, stats>>

\* analyzer.analyze(resource), the body of the with statement
Analyze ==
    /\ pc = "body"
    /\ \E resource \in Resources, validates \in BOOLEAN,
          status \in Statuses, header \in Headers, body \in Bodies :
          LET p == Prepare(resource, validates)
              r == AnalyzeOutcome(store, resource, validates, status, header,
                                  body, tz)
              head == Len(r.reqs) >= 1
              get == Len(r.reqs) >= 2
          IN /\ store' = r.store
             /\ call' = [op |-> "analyze", resource |-> resource,
                         key |-> p.resource,
                         status |-> IF head THEN status ELSE 0,
                         header |-> IF head /\ status # 404 THEN header ELSE None,
                         reqs |-> r.reqs,
                         body |-> IF get THEN body ELSE <<>>,
                         exc |-> r.exc]
    /\ pc' = "leaving"
    /\ UNCHANGED <<file, loaded, saved, tz, chunks, stats>>

\* __exit__ that returns without saving
ExitWithoutSave ==
    /\ pc = "leaving"
    /\ pc' = "start"
    /\ call' = [NoCall EXCEPT !.op = "__exit__", !.exc = call.exc]
    /\ loaded' = <<>>
    /\ UNCHANGED <<file, saved, store, tz, chunks, stats>>

\* __exit__: save(), whether the body raised or not; an exception of the body
\* goes on to the caller
Exit ==
    /\ pc = "leaving"
    /\ file' = SaveOutcome(store)
    /\ saved' = Some(store)
    /\ pc' = "start"
    /\ call' = [NoCall EXCEPT !.op = "__exit__", !.exc = call.exc]
    /\ loaded' = <<>>
    /\ UNCHANGED <<store, tz, chunks, stats>>

Next == Construct \/ Enter \/ Analyze \/ Exit

Spec == Init /\ [][Next]_vars

----------------------------------------------------------------------------
(* collect_stats on its own: contents assembled from chunks *)

LowerAllow == <<"a", "l", "l", "o", "w", ":">>
Dis == <<"D", "i", "s">>
Chunks == {AllowA, DisallowB, DisallowC, Newline, LowerAllow, Dis}

RECURSIVE Flatten(_)
Flatten(cs) == IF cs = <<>> THEN <<>> ELSE Head(cs) \o Flatten(Tail(cs))

\* the content string the chunks make
Content == Flatten(chunks)

ProgramIdle ==
    /\ file = NoFile
    /\ store = <<>>
    /\ pc = "start"
    /\ call = NoCall
    /\ loaded = <<>>
    /\ saved = None
    /\ tz = 0

StatsInit == ProgramIdle /\ StatsIdle

AppendChunk ==
    /\ stats = None
    /\ Len(chunks) < MaxChunks
    /\ \E c \in Chunks : chunks' = Append(chunks, c)
    /\ UNCHANGED <<stats, file, store, pc, call, loaded, saved, tz>>

CollectStatsCall ==
    /\ stats = None
    /\ stats' = Some(CollectStats(Content))
    /\ UNCHANGED <<chunks, file, store, pc, call, loaded, saved, tz>>

StatsNext == AppendChunk \/ CollectStatsCall

StatsSpec == StatsInit /\ [][StatsNext]_vars

----------------------------------------------------------------------------
(* Properties *)

\* the positions at which marker m occurs in string s
Occurrences(s, m) ==
    {i \in 1..Len(s) : i + Len(m) - 1 <= Len(s) /\ SubSeq(s, i, i + Len(m) - 1) = m}

\* the POSIX timestamp of the instant a Last-Modified header names
HeaderTimestamp(header) == Timestamp(ParseLastModifiedFromString(header[1]), tz)

\* C1: when the resource is tracked with a stored last_modified T and HEAD
\* reports a Last-Modified equal to T, analyze leaves the store as it was and
\* issues no GET.
C1_UnchangedLeavesStats ==
    [][(/\ call'.op = "analyze"
        /\ call'.status = 200
        /\ call'.header # None
        /\ call'.key \in DOMAIN store
        /\ store[call'.key].last_modified # None
        /\ store[call'.key].last_modified[1] = HeaderTimestamp(call'.header))
       => (store' = store /\ call'.reqs = <<"HEAD">>)]_vars

\* C2: when HEAD answers 404, analyze raises RobotsTxtNotFound, issues no GET
\* and leaves the store equal to its value before the call (no entry is
\* created for the resource).
C2_NotFoundLeavesStore ==
    [][(call'.op = "analyze" /\ call'.status = 404)
       => (/\ call'.exc = "RobotsTxtNotFound"
           /\ call'.reqs = <<"HEAD">>
           /\ store' = store
           /\ (call'.key \notin DOMAIN store => call'.key \notin DOMAIN store'))]_vars

\* a 404 for a resource that is not tracked, in a store that tracks another
C2_Witness ==
    /\ call.op = "analyze"
    /\ call.status = 404
    /\ call.exc = "RobotsTxtNotFound"
    /\ call.key # <<>>
    /\ call.key \notin DOMAIN store
    /\ DOMAIN store # {}

\* C3: whatever the store holds for the resource, analyze on a HEAD response
\* without a Last-Modified header returns without raising and the entry it
\* stores has last_modified None.
C3_MissingHeaderNeverRaises ==
    (call.op = "analyze" /\ call.status = 200 /\ call.header = None)
    => (/\ call.exc = ""
        /\ call.key \in DOMAIN store
        /\ store[call.key].last_modified = None)

\* the texts of a persisted file that are empty or not valid JSON
CorruptTexts == {<<>>, <<Tok("{")>>, TruncatedText}

\* C4: loading a file that exists and is empty or holds invalid JSON returns
\* normally and the store is the empty mapping.
C4_CorruptFileLoadsEmpty ==
    (call.op = "__enter__" /\ file.exists /\ file.text \in CorruptTexts)
    => (call.exc = "" /\ store = <<>> /\ DOMAIN store = {} /\ pc = "body")

\* the load of a file cut short has returned
C4_Witness ==
    /\ call.op = "__enter__"
    /\ file = FileOf(TruncatedText)
    /\ call.exc = ""
    /\ pc = "body"

\* C5: when the persisted file does not exist, __enter__ returns normally with
\* an empty store and the with-block is entered.
C5_AbsentFileIsEmptyStore ==
    (call.op = "__enter__" /\ ~file.exists)
    => (call.exc = "" /\ store = <<>> /\ pc = "body")

\* C6: a load that follows a save gives back the mapping that was saved: the
\* same keys and, for each key, the same allow, disallow and last_modified.
C6_SaveLoadRoundTrip ==
    (call.op = "__enter__" /\ saved # None)
    => (/\ call.exc = ""
        /\ DOMAIN store = DOMAIN saved[1]
        /\ \A k \in DOMAIN store :
              /\ store[k].allow = saved[1][k].allow
              /\ store[k].disallow = saved[1][k].disallow
              /\ store[k].last_modified = saved[1][k].last_modified)

\* a saved store of several entries, with and without a timestamp, loaded back
C6_Witness ==
    /\ call.op = "__enter__"
    /\ saved # None
    /\ Cardinality(DOMAIN store) >= 2
    /\ \E k \in DOMAIN store : store[k].last_modified = None
    /\ \E k \in DOMAIN store : store[k].last_modified # None

\* C7: collect_stats returns allow = the number of occurrences of "Allow:" and
\* disallow = the number of occurrences of "Disallow:" in the content, each
\* counted on its own; the content "Allow: /a\nDisallow: /b\nDisallow: /c"
\* gives allow 1 and disallow 2; both counts are >= 0.
C7_CountsMarkers ==
    stats # None
    => (/\ stats[1].allow = Cardinality(Occurrences(Content, AllowMarker))
        /\ stats[1].disallow = Cardinality(Occurrences(Content, DisallowMarker))
        /\ stats[1].allow >= 0
        /\ stats[1].disallow >= 0
        /\ (Content = ExampleContent
            => stats[1].allow = 1 /\ stats[1].disallow = 2))

\* collect_stats has run on the example content
C7_Witness ==
    /\ stats # None
    /\ Content = ExampleContent
    /\ chunks = <<AllowA, Newline, DisallowB, Newline, DisallowC>>

\* C8: the store holds at most one entry per resource: two keys that name the
\* same robots.txt are the same key.
C8_OneEntryPerResource ==
    \A k1, k2 \in DOMAIN store : WithPath(k1) = WithPath(k2) => k1 = k2

\* what the persisted file holds, as a load reads it
FileStore(f) == JsonLoads(f.text).value

\* C9: when the with-block ends without an exception, the file holds exactly
\* the store as analyze left it, with every entry loaded at the start that
\* analyze did not touch.
C9_ExitSavesStore ==
    [][(pc = "leaving" /\ pc' = "start" /\ call.exc = "")
       => (/\ file'.exists
           /\ JsonLoads(file'.text).ok
           /\ FileStore(file') = store
           /\ store' = store
           /\ \A k \in DOMAIN loaded :
                 k # call.key
                 => k \in DOMAIN FileStore(file') /\ FileStore(file')[k] = loaded[k])]_vars

\* a with-block has ended normally on a store that kept a loaded entry and
\* got a new one
C9_Witness ==
    /\ call.op = "__exit__"
    /\ call.exc = ""
    /\ saved = Some(store)
    /\ file.exists
    /\ FileStore(file) = store
    /\ Cardinality(DOMAIN store) >= 2

\* the entry analyze writes for a body and a HEAD response
ExpectedEntry(body, header) ==
    [allow |-> Cardinality(Occurrences(body, AllowMarker)),
     disallow |-> Cardinality(Occurrences(body, DisallowMarker)),
     last_modified |-> IF header = None THEN None ELSE Some(HeaderTimestamp(header))]

\* C10: when HEAD finds the file and the resource is untracked, or tracked
\* with a stored timestamp strictly older than the fresh Last-Modified,
\* analyze issues HEAD, then GET, and replaces the entry of the resource by
\* the counts of the retrieved body with the fresh timestamp; entries under
\* other keys are unchanged.
C10_FreshEntryReplaces ==
    [][(/\ call'.op = "analyze"
        /\ call'.status = 200
        /\ \/ call'.key \notin DOMAIN store
           \/ /\ call'.header # None
              /\ store[call'.key].last_modified # None
              /\ store[call'.key].last_modified[1] < HeaderTimestamp(call'.header))
       => (/\ call'.exc = ""
           /\ call'.reqs = <<"HEAD", "GET">>
           /\ DOMAIN store' = (DOMAIN store) \cup {call'.key}
           /\ store'[call'.key] = ExpectedEntry(call'.body, call'.header)
           /\ \A k \in (DOMAIN store) \ {call'.key} : store'[k] = store[k])]_vars

\* analyze has replaced the entry of a tracked resource whose stored timestamp
\* was older, in a store that tracks another key too
C10_Witness ==
    /\ call.op = "analyze"
    /\ call.reqs = <<"HEAD", "GET">>
    /\ call.header # None
    /\ call.key \in DOMAIN loaded
    /\ loaded[call.key].last_modified # None
    /\ loaded[call.key].last_modified[1] < HeaderTimestamp(call.header)
    /\ store[call.key] # loaded[call.key]
    /\ \E k \in DOMAIN loaded : k # call.key /\ store[k] = loaded[k]

====
